---- MODULE Spec2Model ----
(***************************************************************************)
(* A model of vis/plotting/scatter.py: the module-level camera_angles      *)
(* table and the function plot(A, plt, s, c, **kwargs), together with the  *)
(* part of the plotting engine (matplotlib.pyplot, Figure, Axes, Axes3D)   *)
(* that plot drives.                                                       *)
(*                                                                         *)
(* Python values are represented as follows.                               *)
(*   None              the empty tuple <<>>                                *)
(*   a tuple           a TLA+ tuple; Python index i is TLA+ index i + 1    *)
(*   an optional str   the one-element tuple <<"text">>                    *)
(*   a format string   the tuple of its literal pieces and replacement     *)
(*                     fields, e.g. r"$f_{:d}$" is <<"$f_", "{:d}", "$">>  *)
(*   kwargs            a function whose DOMAIN is the set of keys passed   *)
(*   an exception      the pair <<class name, where it was raised>>        *)
(***************************************************************************)
EXTENDS Integers, Sequences, FiniteSets

VARIABLES figs, camera_angles, calls

vars == <<figs, camera_angles, calls>>

\* ------------------------------------------------------------------------
\* Bounds of the model
\* ------------------------------------------------------------------------
MaxRows == 2
MaxCols == 4
MaxCalls == 2

\* ------------------------------------------------------------------------
\* Python values
\* ------------------------------------------------------------------------
None == <<>>

pyplot == <<"matplotlib.pyplot">>

Field == "{:d}"

TABLEAU_BLUE == [kind |-> "scalar", v |-> "tab:blue"]

Scalar(v) == [kind |-> "scalar", v |-> v]

Array(t) == [kind |-> "array", v |-> t]

\* the table of scatter.py, lines 27-45
CameraAngles ==
  [ p \in { "dtlz2", "dtlz2-nbi", "debmdk", "debmdk-nbi", "debmdk-all",
            "debmdk-all-nbi", "dtlz8", "dtlz8-nbi", "c2dtlz2", "c2dtlz2-nbi",
            "cdebmdk", "cdebmdk-nbi", "c0dtlz2", "c0dtlz2-nbi", "crash-nbi",
            "crash-c1-nbi", "crash-c2-nbi", "gaa", "gaa-nbi" } |->
    CASE p = "dtlz2" -> [d \in {"3d", "4d", "8d"} |->
           CASE d = "3d" -> <<60, 20>> [] d = "4d" -> <<-60, 30>> [] OTHER -> <<22, 21>>]
      [] p = "dtlz2-nbi" -> [d \in {"3d", "4d", "8d"} |->
           CASE d = "3d" -> <<60, 20>> [] OTHER -> <<-60, 30>>]
      [] p = "debmdk" -> [d \in {"3d", "4d", "8d"} |->
           CASE d = "3d" -> <<-30, 15>> [] d = "4d" -> <<-20, 32>> [] OTHER -> <<-60, 30>>]
      [] p \in {"debmdk-nbi", "debmdk-all", "debmdk-all-nbi"} ->
           [d \in {"3d", "4d", "8d"} |-> <<-60, 30>>]
      [] p \in {"dtlz8", "dtlz8-nbi"} ->
           [d \in {"3d", "4d", "6d", "8d"} |-> <<-60, 30>>]
      [] p \in {"c2dtlz2", "c2dtlz2-nbi"} -> [d \in {"3d", "4d", "5d", "8d"} |->
           CASE d = "3d" -> <<45, 15>> [] d = "4d" -> <<-20, 40>> [] OTHER -> <<-25, 30>>]
      [] p \in {"cdebmdk", "cdebmdk-nbi"} -> [d \in {"3d", "4d", "8d"} |->
           CASE d = "3d" -> <<20, 15>> [] OTHER -> <<-60, 30>>]
      [] p \in {"c0dtlz2", "c0dtlz2-nbi"} -> [d \in {"3d", "4d", "8d"} |->
           CASE d = "3d" -> <<20, 25>> [] OTHER -> <<-60, 30>>]
      [] p \in {"crash-nbi", "crash-c1-nbi", "crash-c2-nbi"} ->
           [d \in {"3d"} |-> <<30, 25>>]
      [] OTHER -> [d \in {"10d"} |-> <<-60, 30>>] ]

\* ------------------------------------------------------------------------
\* The point matrix A: shape = (n, m), v[i][j] the entry of row i, column j
\* (1-based in the model).
\* ------------------------------------------------------------------------
Matrix(n, m) ==
  [shape |-> <<n, m>>, v |-> [i \in 1..n |-> [j \in 1..m |-> 10 * j + i]]]

\* A[:, j] for a Python column index j: numpy accepts -m <= j < m and
\* counts a negative index from the end.
ColumnOK(A, j) == (0 - A.shape[2]) <= j /\ j < A.shape[2]

Column(A, j) ==
  LET k == IF j < 0 THEN j + A.shape[2] ELSE j
  IN [i \in 1..A.shape[1] |-> A.v[i][k + 1]]

\* t[i] for a Python tuple t and a non-negative index i
ItemOK(t, i) == i < Len(t)

Item(t, i) == t[i + 1]

\* ------------------------------------------------------------------------
\* str.format with one positional argument
\* ------------------------------------------------------------------------
Digit(d) ==
  CASE d = 0 -> "0" [] d = 1 -> "1" [] d = 2 -> "2" [] d = 3 -> "3"
    [] d = 4 -> "4" [] d = 5 -> "5" [] d = 6 -> "6" [] d = 7 -> "7"
    [] d = 8 -> "8" [] OTHER -> "9"

RECURSIVE NatStr(_)
NatStr(k) == IF k < 10 THEN Digit(k) ELSE NatStr(k \div 10) \o Digit(k % 10)

\* format(k, "d")
DecStr(k) == IF k < 0 THEN "-" \o NatStr(0 - k) ELSE NatStr(k)

NumFields(tmpl) == Cardinality({i \in 1..Len(tmpl) : tmpl[i] = Field})

\* Automatic field numbering: the n-th "{:d}" takes positional argument
\* n - 1, so a template with two or more fields and one argument raises
\* IndexError; a template without fields ignores the argument.
FormatOK(tmpl) == NumFields(tmpl) <= 1

RECURSIVE Format(_, _)
Format(tmpl, k) ==
  IF tmpl = <<>> THEN ""
  ELSE (IF Head(tmpl) = Field THEN DecStr(k) ELSE Head(tmpl)) \o Format(Tail(tmpl), k)

\* ------------------------------------------------------------------------
\* The plotting engine, as far as plot drives it.  The registry figs is
\* pyplot's list of open figures; figure number k is figs[k].  A frame is
\* the state of one running call of plot:
\*   figs  the registry          ops  the engine operations invoked so far
\*   val   the value the last engine operation returned
\*   fig, ax  plot's local variables (ax is an index into figs[fig].axes)
\*   exc   None, or the exception that ended the call
\* ------------------------------------------------------------------------
XYZ == {"x", "y", "z"}

NewFigure(num) == [num |-> num, suptitle |-> None, axes |-> <<>>]

NewAxes(projection) ==
  [ projection |-> projection,
    collections |-> <<>>,
    bound |-> [d \in XYZ |-> IF d = "z" /\ projection # "3d" THEN None ELSE <<0, 1>>],
    label |-> [d \in XYZ |-> None],
    rotate_label |-> [d \in XYZ |-> IF d = "z" /\ projection # "3d" THEN "n/a" ELSE "auto"],
    view |-> IF projection = "3d" THEN <<30, -60>> ELSE None ]

Invoke(f, op) == [f EXCEPT !.ops = Append(@, op)]

Raise(f, class, where) == [f EXCEPT !.exc = <<class, where>>]

\* plt.figure(): a new, empty figure with the next free number
plt_figure(f) ==
  LET num == Len(f.figs) + 1
  IN [Invoke(f, "plt.figure") EXCEPT !.figs = Append(@, NewFigure(num)), !.val = num]

\* plt.gcf(): the current figure, created when there is none
plt_gcf(f) ==
  IF f.figs = <<>> THEN plt_figure(f)
  ELSE [Invoke(f, "plt.gcf") EXCEPT !.val = Len(f.figs)]

\* fig.suptitle(t)
fig_suptitle(f, fig, t) ==
  [Invoke(f, "fig.suptitle") EXCEPT !.figs[fig].suptitle = t]

\* fig.gca(): the figure's current axes, created (2-D) when it has none
fig_gca(f, fig) ==
  IF f.figs[fig].axes = <<>>
    THEN [Invoke(f, "fig.gca") EXCEPT !.figs[fig].axes = <<NewAxes("rectilinear")>>,
                                      !.val = 1]
    ELSE [Invoke(f, "fig.gca") EXCEPT !.val = Len(f.figs[fig].axes)]

\* Axes3D(fig): new 3-D axes added to the figure
Axes3D(f, fig) ==
  [Invoke(f, "Axes3D") EXCEPT !.figs[fig].axes = Append(@, NewAxes("3d")),
                              !.val = Len(f.figs[fig].axes) + 1]

SeqMin(col) == CHOOSE v \in {col[i] : i \in DOMAIN col} : \A i \in DOMAIN col : v <= col[i]

SeqMax(col) == CHOOSE v \in {col[i] : i \in DOMAIN col} : \A i \in DOMAIN col : v >= col[i]

\* the bound autoscaling gives dimension k of the axes once data is added
AutoBound(a, data, k) ==
  LET lo == SeqMin(data[k])
      hi == SeqMax(data[k])
      d == CASE k = 1 -> "x" [] k = 2 -> "y" [] OTHER -> "z"
      old == a.bound[d]
  IN IF a.collections = <<>> THEN <<lo, hi>>
     ELSE << IF old[1] < lo THEN old[1] ELSE lo, IF old[2] > hi THEN old[2] ELSE hi >>

\* a per-point array of sizes or colours must have one entry per point
PerPointOK(p, n) == p.kind = "array" => Len(p.v) = n

\* ax.scatter(x, y[, z], s=s, c=c)
ax_scatter(f, fig, ax, data, s, c) ==
  LET g == Invoke(f, "ax.scatter")
      a == f.figs[fig].axes[ax]
      n == Len(data[1])
  IN IF ~ (PerPointOK(s, n) /\ PerPointOK(c, n))
       THEN Raise(g, "ValueError", "engine")
       ELSE [g EXCEPT !.figs[fig].axes[ax] =
               [a EXCEPT !.collections = Append(@, [data |-> data, s |-> s, c |-> c]),
                         !.bound = [d \in XYZ |->
                            CASE d = "x" -> AutoBound(a, data, 1)
                              [] d = "y" -> AutoBound(a, data, 2)
                              [] OTHER -> IF Len(data) >= 3 THEN AutoBound(a, data, 3)
                                          ELSE a.bound[d]]]]

\* ax.get_xbound() / get_ybound() / get_zbound()
ax_get_bound(f, fig, ax, d) ==
  [Invoke(f, "ax.get_" \o d \o "bound") EXCEPT !.val = f.figs[fig].axes[ax].bound[d]]

\* ax.set_xbound(b) / set_ybound(b) / set_zbound(b)
ax_set_bound(f, fig, ax, d, b) ==
  [Invoke(f, "ax.set_" \o d \o "bound") EXCEPT !.figs[fig].axes[ax].bound[d] = b]

\* ax.set_xlabel(text, fontsize=fs) / set_ylabel / set_zlabel
ax_set_label(f, fig, ax, d, text, fs) ==
  [Invoke(f, "ax.set_" \o d \o "label") EXCEPT
      !.figs[fig].axes[ax].label[d] = <<text, fs>>]

\* ax.xaxis.set_rotate_label(flag), and yaxis, zaxis
axis_set_rotate_label(f, fig, ax, d, flag) ==
  [Invoke(f, "ax." \o d \o "axis.set_rotate_label") EXCEPT
      !.figs[fig].axes[ax].rotate_label[d] = flag]

\* ax.view_init(elev, azim)
ax_view_init(f, fig, ax, elev, azim) ==
  [Invoke(f, "ax.view_init") EXCEPT !.figs[fig].axes[ax].view = <<elev, azim>>]

\* ------------------------------------------------------------------------
\* plot(A, plt, s, c, **kwargs)
\* ------------------------------------------------------------------------
\* kwargs[key] if key in kwargs else default
Kw(kwargs, key, default) == IF key \in DOMAIN kwargs THEN kwargs[key] ELSE default

label_prefix(kwargs) == Kw(kwargs, "label_prefix", <<"$f_", Field, "$">>)

label_fontsize(kwargs) == Kw(kwargs, "label_fontsize", "large")

axes(kwargs) == Kw(kwargs, "axes", <<0, 1, 2>>)

euler(kwargs) == Kw(kwargs, "euler", <<-60, 30>>)

xbound(kwargs) == Kw(kwargs, "xbound", None)

ybound(kwargs) == Kw(kwargs, "ybound", None)

zbound(kwargs) == Kw(kwargs, "zbound", None)

title(kwargs) == Kw(kwargs, "title", None)

\* variant: fig = plt.gcf(), drawing into the current figure
current_figure(f) ==
  LET g == plt_gcf(f) IN [g EXCEPT !.fig = g.val]

\* fig = plt.figure()
new_figure(f) ==
  LET g == plt_figure(f) IN [g EXCEPT !.fig = g.val]

\* variant: fig.suptitle(title) without the test for None
set_title_always(f, t) == fig_suptitle(f, f.fig, t)

\* if title is not None: fig.suptitle(title)
set_title(f, t) == IF t # None THEN fig_suptitle(f, f.fig, t) ELSE f

\* variant: the 2-D branch taken for fewer than 2 columns only
is_2d_off_by_one(A) == A.shape[2] < 2

\* if A.shape[1] < 3: ... else: ...
is_2d(A) == A.shape[2] < 3

\* ax = fig.gca()
new_axes_2d(f) ==
  LET g == fig_gca(f, f.fig) IN [g EXCEPT !.ax = g.val]

\* ax = Axes3D(fig)
new_axes_3d(f) ==
  LET g == Axes3D(f, f.fig) IN [g EXCEPT !.ax = g.val]

\* The arguments A[:,axes[0]], A[:,axes[1]], ... are evaluated left to right
\* before scatter is called; k is the number of columns the branch passes.
columns_ok(A, sel, k) ==
  \A i \in 0..(k - 1) : ItemOK(sel, i) /\ ColumnOK(A, Item(sel, i))

columns(A, sel, k) == [i \in 1..k |-> Column(A, Item(sel, i - 1))]

\* variant: the indices go to the engine, whose scatter does the indexing
do_scatter_unchecked(f, A, sel, k, s, c) ==
  IF columns_ok(A, sel, k)
    THEN ax_scatter(f, f.fig, f.ax, columns(A, sel, k), s, c)
    ELSE Raise(Invoke(f, "ax.scatter"), "IndexError", "engine")

\* ax.scatter(A[:,axes[0]], A[:,axes[1]][, A[:,axes[2]]], s=s, c=c)
do_scatter(f, A, sel, k, s, c) ==
  IF columns_ok(A, sel, k)
    THEN ax_scatter(f, f.fig, f.ax, columns(A, sel, k), s, c)
    ELSE Raise(f, "IndexError", "expression")

\* variant: the bound passed is ignored
bound_arg_auto(f, d, b) == ax_get_bound(f, f.fig, f.ax, d)

\* the argument of set_xbound / set_ybound / set_zbound
bound_arg(f, d, b) == IF b = None THEN ax_get_bound(f, f.fig, f.ax, d) ELSE [f EXCEPT !.val = b]

\* ax.set_xbound(ax.get_xbound() if xbound is None else xbound), and y, z
set_bound(f, d, b) ==
  LET g == bound_arg(f, d, b) IN ax_set_bound(g, g.fig, g.ax, d, g.val)

\* variant: the label carries the 0-based index
label_number_zero_based(sel, i) == Item(sel, i)

\* the number put into the label of the i-th plotted axis
label_number(sel, i) == Item(sel, i) + 1

\* ax.set_xlabel(label_prefix.format(axes[0] + 1), fontsize=label_fontsize), and y, z
set_label(f, d, i, kwargs) ==
  IF FormatOK(label_prefix(kwargs))
    THEN ax_set_label(f, f.fig, f.ax, d,
                      Format(label_prefix(kwargs), label_number(axes(kwargs), i)),
                      label_fontsize(kwargs))
    ELSE Raise(f, "IndexError", "expression")

\* ax.xaxis.set_rotate_label(False), and yaxis, zaxis
rotate_off(f, d) == axis_set_rotate_label(f, f.fig, f.ax, d, "off")

\* variant: euler read as (elevation, azimuth)
view_args_swapped(e) == <<Item(e, 0), Item(e, 1)>>

\* the arguments of view_init: (euler[1], euler[0])
view_args(e) == <<Item(e, 1), Item(e, 0)>>

\* ax.view_init(euler[1], euler[0])
set_view(f, e) == ax_view_init(f, f.fig, f.ax, view_args(e)[1], view_args(e)[2])

\* A statement of plot's body: what it does (op), the axis it is about (d,
\* or "" for none) and the position in axes of the column it is about (i).
Stmt(op, d, i) == [op |-> op, d |-> d, i |-> i]

\* variant: the 2-D branch also sets the camera
branch_2d_with_view ==
  << Stmt("gca", "", 0), Stmt("scatter", "", 2),
     Stmt("set_bound", "x", 0), Stmt("set_bound", "y", 0),
     Stmt("set_label", "x", 0), Stmt("set_label", "y", 1),
     Stmt("view_init", "", 0) >>

\* the statements of the branch for fewer than 3 columns
branch_2d ==
  << Stmt("gca", "", 0), Stmt("scatter", "", 2),
     Stmt("set_bound", "x", 0), Stmt("set_bound", "y", 0),
     Stmt("set_label", "x", 0), Stmt("set_label", "y", 1) >>

\* the statements of the branch for 3 or more columns
branch_3d ==
  << Stmt("Axes3D", "", 0), Stmt("scatter", "", 3),
     Stmt("set_bound", "x", 0), Stmt("set_bound", "y", 0), Stmt("set_bound", "z", 0),
     Stmt("set_label", "x", 0), Stmt("set_label", "y", 1), Stmt("set_label", "z", 2),
     Stmt("set_rotate_label", "x", 0), Stmt("set_rotate_label", "y", 0),
     Stmt("set_rotate_label", "z", 0),
     Stmt("view_init", "", 0) >>

\* the statements under "if plt is not None", up to the return
render(A) ==
  << Stmt("figure", "", 0), Stmt("suptitle", "", 0) >>
    \o (IF is_2d(A) THEN branch_2d ELSE branch_3d)

\* one statement, run in frame f
Exec(f, st, A, s, c, kwargs) ==
  CASE st.op = "figure" -> new_figure(f)
    [] st.op = "suptitle" -> set_title(f, title(kwargs))
    [] st.op = "gca" -> new_axes_2d(f)
    [] st.op = "Axes3D" -> new_axes_3d(f)
    [] st.op = "scatter" -> do_scatter(f, A, axes(kwargs), st.i, s, c)
    [] st.op = "set_bound" ->
         set_bound(f, st.d, CASE st.d = "x" -> xbound(kwargs)
                              [] st.d = "y" -> ybound(kwargs)
                              [] OTHER -> zbound(kwargs))
    [] st.op = "set_label" -> set_label(f, st.d, st.i, kwargs)
    [] st.op = "set_rotate_label" -> rotate_off(f, st.d)
    [] OTHER -> set_view(f, euler(kwargs))

\* The statements run in order from frame f; an exception ends the run.
\* (v is f, evaluated once.)
RECURSIVE Run(_, _, _, _, _, _)
Run(f, stmts, A, s, c, kwargs) ==
  CHOOSE r \in { IF stmts = <<>> \/ v.exc # None THEN v
                 ELSE Run(Exec(v, Head(stmts), A, s, c, kwargs), Tail(stmts), A, s, c, kwargs)
                 : v \in {f} } : TRUE

\* variant: nothing is raised and the call returns
missing_engine_silent(f) == f

\* raise TypeError("A valid `matplotlib.pyplot` object must be provided.")
missing_engine(f) == Raise(f, "TypeError", "raise")

Frame(registry) ==
  [figs |-> registry, ops |-> <<>>, val |-> None, fig |-> 0, ax |-> 0, exc |-> None]

\* The frame plot ends in, started on the registry given
plot(A, plt, s, c, kwargs, registry) ==
  IF plt # None THEN Run(Frame(registry), render(A), A, s, c, kwargs)
  ELSE missing_engine(Frame(registry))

\* what the caller gets: (fig, ax), or the exception
Outcome(f) ==
  IF f.exc = None
    THEN [status |-> "returned", fig |-> f.fig, ax |-> f.ax, exc |-> None]
    ELSE [status |-> "raised", fig |-> 0, ax |-> 0, exc |-> f.exc]

\* ------------------------------------------------------------------------
\* The arguments the calls are made with
\* ------------------------------------------------------------------------
Keys ==
  {"label_prefix", "label_fontsize", "axes", "euler", "xbound", "ybound", "zbound", "title"}

Points == {Matrix(n, m) : n \in 1..MaxRows, m \in 1..MaxCols}

Engines == {None, pyplot}

Sizes == {Scalar(1), Array([i \in 1..MaxRows |-> i])}

Colors == {TABLEAU_BLUE, Array([i \in 1..MaxRows |-> "tab:red"])}

AxesChoices == {<<1, 0>>, <<0>>, <<-1, 0>>, <<2, 0, 1>>, <<0, 1, 3>>, <<0, 1, MaxCols>>}

PrefixChoices == {<<"x", Field>>, <<Field, "/", Field>>}

EulerChoices == {camera_angles["dtlz2"]["3d"]}

XBoundChoices == {None, <<0, 1>>}

YBoundChoices == {<<-1, 2>>}

ZBoundChoices == {<<0, 50>>}

TitleChoices == {None, <<"Front">>}

FontChoices == {"small"}

\* the values key k may be passed with; a key that is not passed has none
Choices(present, k, S) == IF k \in present THEN S ELSE {None}

KwValue(k, lp, lf, a, e, xb, yb, zb, t) ==
  CASE k = "label_prefix" -> lp
    [] k = "label_fontsize" -> lf
    [] k = "axes" -> a
    [] k = "euler" -> e
    [] k = "xbound" -> xb
    [] k = "ybound" -> yb
    [] k = "zbound" -> zb
    [] OTHER -> t

Init ==
  /\ figs = <<>>
  /\ camera_angles = CameraAngles
  /\ calls = <<>>

\* one call plot(A, plt, s, c, **kwargs), from entry to return or raise
Call(A, plt, s, c, kwargs) ==
  \E f \in {plot(A, plt, s, c, kwargs, figs)} :
     /\ figs' = f.figs
     /\ calls' = Append(calls, [A |-> A, plt |-> plt, s |-> s, c |-> c, kwargs |-> kwargs,
                                pre |-> figs, ops |-> f.ops, ret |-> Outcome(f)])
     /\ UNCHANGED camera_angles

\* a call on the freshly imported module, with any arguments
PlotFirst ==
  /\ calls = <<>>
  /\ \E A \in Points, plt \in Engines, s \in Sizes, c \in Colors, present \in SUBSET Keys :
       \E lp \in Choices(present, "label_prefix", PrefixChoices),
          lf \in Choices(present, "label_fontsize", FontChoices),
          a \in Choices(present, "axes", AxesChoices),
          e \in Choices(present, "euler", EulerChoices),
          xb \in Choices(present, "xbound", XBoundChoices),
          yb \in Choices(present, "ybound", YBoundChoices),
          zb \in Choices(present, "zbound", ZBoundChoices),
          t \in Choices(present, "title", TitleChoices) :
         Call(A, plt, s, c, [k \in present |-> KwValue(k, lp, lf, a, e, xb, yb, zb, t)])

\* a call in a sequence of calls, with the default size and colour
PlotAgain ==
  /\ Len(calls) < MaxCalls
  /\ \E A \in {Matrix(MaxRows, 2), Matrix(MaxRows, 3)}, plt \in Engines,
        present \in SUBSET {"axes", "title"} :
       Call(A, plt, Scalar(1), TABLEAU_BLUE,
            [k \in present |-> KwValue(k, None, None, <<0, 1, MaxCols>>, None, None,
                                       None, None, <<"Front">>)])

Next == PlotFirst

NextSeq == PlotAgain

Spec == Init /\ [][Next]_vars

SpecSeq == Init /\ [][NextSeq]_vars

TypeOK ==
  /\ camera_angles = CameraAngles
  /\ Len(calls) <= MaxCalls

\* ------------------------------------------------------------------------
\* Reading the record of the calls
\* ------------------------------------------------------------------------
\* the registry as call i left it
Post(i) == IF i < Len(calls) THEN calls[i + 1].pre ELSE figs

Valid(i) == calls[i].plt # None

Returned(i) == calls[i].ret.status = "returned"

Raised(i) == calls[i].ret.status = "raised"

Cols(i) == calls[i].A.shape[2]

Passed(i, key) == key \in DOMAIN calls[i].kwargs

\* the figure call i created (the engine is valid)
CreatedFig(i) == Post(i)[Len(calls[i].pre) + 1]

\* the figure and the axes call i returned
RetFig(i) == Post(i)[calls[i].ret.fig]

RetAxes(i) == RetFig(i).axes[calls[i].ret.ax]

Has(ops, op) == \E j \in DOMAIN ops : ops[j] = op

Before(ops, a, b) ==
  \A j \in DOMAIN ops : ops[j] = b => \E h \in 1..(j - 1) : ops[h] = a

LastOp(ops) == IF ops = <<>> THEN "" ELSE ops[Len(ops)]

\* ------------------------------------------------------------------------
\* C1: a call with plt = None raises TypeError from plot's raise statement,
\* whatever A, s, c and kwargs are, without having invoked any engine
\* operation and without having changed the registry of figures.
\* ------------------------------------------------------------------------
C1_MissingEngineRaises ==
  \A i \in DOMAIN calls :
    ~ Valid(i) =>
      /\ Raised(i)
      /\ calls[i].ret.exc = <<"TypeError", "raise">>
      /\ calls[i].ops = <<>>
      /\ Post(i) = calls[i].pre

C1_Witness ==
  \E i \in DOMAIN calls :
    /\ ~ Valid(i) /\ Raised(i)
    /\ Cols(i) = 1
    /\ Passed(i, "axes") /\ calls[i].kwargs["axes"] = <<0>>
    /\ Passed(i, "label_prefix") /\ ~ FormatOK(calls[i].kwargs["label_prefix"])
    /\ calls[i].s.kind = "array" /\ calls[i].A.shape[1] # Len(calls[i].s.v)

\* ------------------------------------------------------------------------
\* C2: with a valid engine, at least 2 columns, no configuration key passed
\* and size and colour that fit the points, the call returns a figure of the
\* registry and axes of that figure; with exactly 2 columns the scatter got
\* columns 0 and 1 only.
\* ------------------------------------------------------------------------
C2_DefaultConfigReturns ==
  \A i \in DOMAIN calls :
    ( /\ Valid(i) /\ Cols(i) >= 2 /\ DOMAIN calls[i].kwargs = {}
      /\ PerPointOK(calls[i].s, calls[i].A.shape[1])
      /\ PerPointOK(calls[i].c, calls[i].A.shape[1]) ) =>
      /\ Returned(i)
      /\ calls[i].ret.fig \in DOMAIN Post(i)
      /\ calls[i].ret.ax \in DOMAIN RetFig(i).axes
      /\ Cols(i) = 2 =>
           /\ ~ Has(calls[i].ops, "Axes3D")
           /\ Len(RetAxes(i).collections) = 1
           /\ RetAxes(i).collections[1].data =
                <<Column(calls[i].A, 0), Column(calls[i].A, 1)>>

C2_Witness ==
  \E i \in DOMAIN calls :
    /\ Valid(i) /\ Cols(i) = 2 /\ DOMAIN calls[i].kwargs = {}
    /\ Returned(i)
    /\ calls[i].s.kind = "array"

\* ------------------------------------------------------------------------
\* C3: with a valid engine and fewer than 3 columns, a call that returns
\* returns 2-D axes holding one scatter of the columns axes[0] and axes[1];
\* the X and Y labels are the formatted prefix at the requested font size,
\* and no Z bound, Z label, label rotation or camera operation was invoked,
\* whatever zbound and euler are.
\* ------------------------------------------------------------------------
C3_FewColumns2D ==
  \A i \in DOMAIN calls :
    (Valid(i) /\ Cols(i) < 3 /\ Returned(i)) =>
      LET k == calls[i]
          a == RetAxes(i)
          sel == axes(k.kwargs)
      IN /\ a.projection = "rectilinear"
         /\ a.collections = << [data |-> <<Column(k.A, sel[1]), Column(k.A, sel[2])>>,
                                s |-> k.s, c |-> k.c] >>
         /\ a.label["x"] = <<Format(label_prefix(k.kwargs), sel[1] + 1), label_fontsize(k.kwargs)>>
         /\ a.label["y"] = <<Format(label_prefix(k.kwargs), sel[2] + 1), label_fontsize(k.kwargs)>>
         /\ a.bound["z"] = None /\ a.label["z"] = None /\ a.view = None
         /\ \A d \in XYZ : a.rotate_label[d] # "off"
         /\ Has(k.ops, "ax.set_xbound") /\ Has(k.ops, "ax.set_ybound")
         /\ ~ \E op \in {"ax.set_zbound", "ax.get_zbound", "ax.set_zlabel", "ax.view_init",
                         "ax.xaxis.set_rotate_label", "ax.yaxis.set_rotate_label",
                         "ax.zaxis.set_rotate_label", "Axes3D"} : Has(k.ops, op)

C3_Witness ==
  \E i \in DOMAIN calls :
    /\ Valid(i) /\ Cols(i) = 2 /\ Returned(i)
    /\ Passed(i, "zbound") /\ Passed(i, "euler") /\ Passed(i, "axes")
    /\ calls[i].kwargs["axes"] = <<1, 0>>

\* ------------------------------------------------------------------------
\* C4: with a valid engine and 3 or more columns, a call that returns
\* returns 3-D axes holding one scatter of exactly the columns axes[0],
\* axes[1], axes[2]; the X, Y, Z labels are label_prefix formatted with
\* axes[0]+1, axes[1]+1, axes[2]+1 ("$f_1$", "$f_2$", "$f_3$" by default).
\* ------------------------------------------------------------------------
C4_ManyColumns3D ==
  \A i \in DOMAIN calls :
    (Valid(i) /\ Cols(i) >= 3 /\ Returned(i)) =>
      LET k == calls[i]
          a == RetAxes(i)
          sel == axes(k.kwargs)
          lp == label_prefix(k.kwargs)
      IN /\ a.projection = "3d"
         /\ Len(a.collections) = 1
         /\ a.collections[1].data =
              <<Column(k.A, sel[1]), Column(k.A, sel[2]), Column(k.A, sel[3])>>
         /\ a.label["x"][1] = Format(lp, sel[1] + 1)
         /\ a.label["y"][1] = Format(lp, sel[2] + 1)
         /\ a.label["z"][1] = Format(lp, sel[3] + 1)
         /\ (~ Passed(i, "label_prefix") /\ ~ Passed(i, "axes")) =>
              /\ a.label["x"][1] = "$f_1$"
              /\ a.label["y"][1] = "$f_2$"
              /\ a.label["z"][1] = "$f_3$"
         /\ (Passed(i, "label_prefix") /\ k.kwargs["label_prefix"] = <<"x", Field>>
             /\ Passed(i, "axes") /\ k.kwargs["axes"] = <<2, 0, 1>>) =>
              /\ a.label["x"][1] = "x3"
              /\ a.label["y"][1] = "x1"
              /\ a.label["z"][1] = "x2"

C4_Witness ==
  \E i \in DOMAIN calls :
    /\ Valid(i) /\ Cols(i) > 3 /\ Returned(i)
    /\ Passed(i, "label_prefix") /\ Passed(i, "axes")
    /\ calls[i].kwargs["axes"] = <<2, 0, 1>>
    /\ RetAxes(i).label["x"][1] = "x3"

\* the frame of call i right after its scatter statement
ScatterFrame(i) ==
  LET k == calls[i]
      upto == CHOOSE j \in DOMAIN render(k.A) : render(k.A)[j].op = "scatter"
  IN Run(Frame(k.pre), SubSeq(render(k.A), 1, upto), k.A, k.s, k.c, k.kwargs)

\* the axes of call i as its scatter left them
ScatterAxes(i) == ScatterFrame(i).figs[calls[i].ret.fig].axes[calls[i].ret.ax]

\* the dimensions of the branch call i took
Dims(i) == IF Cols(i) < 3 THEN {"x", "y"} ELSE XYZ

\* ------------------------------------------------------------------------
\* C5: on the returned axes, the bound of an axis whose xbound / ybound /
\* zbound was passed (and is not None) is the passed pair; the bound of an
\* axis that got none is the bound the axes had right after the scatter.
\* Every bound is set after the scatter.
\* ------------------------------------------------------------------------
C5_BoundsApplied ==
  \A i \in DOMAIN calls :
    (Valid(i) /\ Returned(i)) =>
      LET k == calls[i]
          a == RetAxes(i)
      IN \A d \in Dims(i) :
           /\ a.bound[d] = IF Kw(k.kwargs, d \o "bound", None) # None
                             THEN k.kwargs[d \o "bound"]
                             ELSE ScatterAxes(i).bound[d]
           /\ Has(k.ops, "ax.set_" \o d \o "bound")
           /\ Before(k.ops, "ax.scatter", "ax.set_" \o d \o "bound")
           /\ ~ Before(k.ops, "ax.set_" \o d \o "bound", "ax.scatter")

C5_Witness ==
  \E i \in DOMAIN calls :
    /\ Valid(i) /\ Returned(i) /\ Cols(i) >= 3
    /\ Passed(i, "xbound") /\ calls[i].kwargs["xbound"] = <<0, 1>>
    /\ ~ Passed(i, "ybound")
    /\ Passed(i, "zbound")
    /\ RetAxes(i).bound["x"] = <<0, 1>>
    /\ RetAxes(i).bound["y"] # <<0, 1>>
    /\ RetAxes(i).bound["z"] = <<0, 50>>

\* ------------------------------------------------------------------------
\* C6: a call that ends in an error leaves the registry of figures as it
\* found it: no figure created, none modified.
\* ------------------------------------------------------------------------
C6_NoPartialFailure ==
  \A i \in DOMAIN calls : Raised(i) => Post(i) = calls[i].pre

\* the outcome of call i with the figure number taken out
Shape(i) ==
  [ ret |-> [calls[i].ret EXCEPT !.fig = 0],
    ops |-> calls[i].ops,
    made |-> IF Valid(i) THEN <<[CreatedFig(i) EXCEPT !.num = 0]>> ELSE <<>> ]

SameArgs(i, j) ==
  /\ calls[i].A = calls[j].A
  /\ calls[i].plt = calls[j].plt
  /\ calls[i].s = calls[j].s
  /\ calls[i].c = calls[j].c
  /\ DOMAIN calls[i].kwargs = DOMAIN calls[j].kwargs
  /\ \A key \in DOMAIN calls[i].kwargs : calls[i].kwargs[key] = calls[j].kwargs[key]

\* ------------------------------------------------------------------------
\* C7: every call with a valid engine adds exactly one figure to the
\* registry and leaves the earlier figures as they were; the figures of
\* two calls that returned are distinct; two calls with equal arguments
\* have equal outcomes (up to the number of the figure); camera_angles
\* keeps its initial value.
\* ------------------------------------------------------------------------
C7_FreshFigureNoState ==
  /\ camera_angles = CameraAngles
  /\ \A i \in DOMAIN calls :
       /\ Valid(i) => /\ Len(Post(i)) = Len(calls[i].pre) + 1
                      /\ SubSeq(Post(i), 1, Len(calls[i].pre)) = calls[i].pre
                      /\ Cardinality({j \in DOMAIN calls[i].ops :
                                        calls[i].ops[j] = "plt.figure"}) = 1
       /\ Returned(i) => /\ calls[i].ret.fig = Len(calls[i].pre) + 1
                         /\ Len(RetFig(i).axes) = 1
                         /\ Len(RetAxes(i).collections) = 1
  /\ \A i, j \in DOMAIN calls :
       /\ (i # j /\ Returned(i) /\ Returned(j)) => calls[i].ret.fig # calls[j].ret.fig
       /\ SameArgs(i, j) => Shape(i) = Shape(j)

C7_Witness ==
  /\ Len(calls) >= 2
  /\ Returned(1) /\ Returned(2)
  /\ SameArgs(1, 2)
  /\ Passed(1, "title")
  /\ Len(figs) = 2

\* ------------------------------------------------------------------------
\* C8: on returned 3-D axes the camera is at elevation euler[1] and azimuth
\* euler[0] of the euler passed, (-60, 30) when none is passed, so
\* elevation 30 and azimuth -60 by default; the label rotation of the
\* three axes is off.
\* ------------------------------------------------------------------------
C8_CameraFromEuler ==
  \A i \in DOMAIN calls :
    (Valid(i) /\ Cols(i) >= 3 /\ Returned(i)) =>
      LET k == calls[i]
          a == RetAxes(i)
          e == IF Passed(i, "euler") THEN k.kwargs["euler"] ELSE <<-60, 30>>
      IN /\ a.view = <<e[2], e[1]>>
         /\ ~ Passed(i, "euler") => a.view = <<30, -60>>
         /\ (Passed(i, "euler") /\ k.kwargs["euler"] = <<60, 20>>) => a.view = <<20, 60>>
         /\ \A d \in XYZ : a.rotate_label[d] = "off"
         /\ LastOp(k.ops) = "ax.view_init"

C8_Witness ==
  \E i \in DOMAIN calls :
    /\ Valid(i) /\ Cols(i) >= 3 /\ Returned(i)
    /\ Passed(i, "euler")
    /\ calls[i].kwargs["euler"] = camera_angles["dtlz2"]["3d"]
    /\ RetAxes(i).view = <<20, 60>>

\* ------------------------------------------------------------------------
\* C9: with a valid engine, fig.suptitle is invoked exactly when a title
\* other than None is passed; it is then the operation right after
\* plt.figure (before any axes exist) and the created figure carries the
\* title; otherwise the created figure has no title.
\* ------------------------------------------------------------------------
C9_TitleIffSet ==
  \A i \in DOMAIN calls :
    Valid(i) =>
      LET k == calls[i]
          set == Passed(i, "title") /\ k.kwargs["title"] # None
      IN /\ Has(k.ops, "fig.suptitle") <=> set
         /\ set => /\ CreatedFig(i).suptitle = k.kwargs["title"]
                   /\ k.ops[1] = "plt.figure"
                   /\ k.ops[2] = "fig.suptitle"
                   /\ \A j \in DOMAIN k.ops : k.ops[j] = "fig.suptitle" => j = 2
         /\ ~ set => CreatedFig(i).suptitle = None

C9_Witness ==
  \E i \in DOMAIN calls :
    /\ Valid(i) /\ Returned(i) /\ Cols(i) = 2
    /\ Passed(i, "title") /\ calls[i].kwargs["title"] = <<"Front">>
    /\ RetFig(i).suptitle = <<"Front">>

\* ------------------------------------------------------------------------
\* C10 (as claimed): TypeError is raised exactly when the engine is
\* missing, and with a valid engine every failure happens inside the
\* engine's scatter operation.
\* ------------------------------------------------------------------------
C10_FailuresInsideEngine ==
  \A i \in DOMAIN calls :
    /\ (Raised(i) /\ calls[i].ret.exc[1] = "TypeError") <=> ~ Valid(i)
    /\ (Valid(i) /\ Raised(i)) =>
         /\ calls[i].ret.exc[2] = "engine"
         /\ LastOp(calls[i].ops) = "ax.scatter"

\* ------------------------------------------------------------------------
\* C10 (amended): TypeError is raised exactly when the engine is missing,
\* by plot's raise statement.  With a valid engine nothing is checked
\* before the figure and the axes are created, and a call fails in one of
\* three ways: an axes tuple too short or a column index out of range
\* raises IndexError while plot evaluates the arguments of scatter, which
\* is then never invoked; size or colour arrays that do not fit the points
\* fail inside the engine's scatter; a label_prefix with more than one
\* field raises IndexError in plot's format call, after the bounds are set.
\* ------------------------------------------------------------------------
C10_FailureSites ==
  \A i \in DOMAIN calls :
    LET k == calls[i]
        n == IF is_2d(k.A) THEN 2 ELSE 3
        sel == IF Passed(i, "axes") THEN k.kwargs["axes"] ELSE <<0, 1, 2>>
        indexable == \A h \in 1..n :
                        h <= Len(sel) /\ sel[h] < Cols(i) /\ sel[h] >= 0 - Cols(i)
        fits == PerPointOK(k.s, k.A.shape[1]) /\ PerPointOK(k.c, k.A.shape[1])
        formats == ~ Passed(i, "label_prefix") \/ FormatOK(k.kwargs["label_prefix"])
    IN /\ (Raised(i) /\ k.ret.exc[1] = "TypeError") <=> ~ Valid(i)
       /\ ~ Valid(i) => k.ret.exc = <<"TypeError", "raise">>
       /\ Valid(i) =>
            /\ k.ops[1] = "plt.figure"
            /\ Has(k.ops, "fig.gca") \/ Has(k.ops, "Axes3D")
            /\ Returned(i) <=> (indexable /\ fits /\ formats)
            /\ ~ indexable =>
                 /\ k.ret.exc = <<"IndexError", "expression">>
                 /\ ~ Has(k.ops, "ax.scatter")
                 /\ LastOp(k.ops) \in {"fig.gca", "Axes3D"}
            /\ (indexable /\ ~ fits) =>
                 /\ k.ret.exc = <<"ValueError", "engine">>
                 /\ LastOp(k.ops) = "ax.scatter"
            /\ (indexable /\ fits /\ ~ formats) =>
                 /\ k.ret.exc = <<"IndexError", "expression">>
                 /\ LastOp(k.ops) = (IF n = 2 THEN "ax.set_ybound" ELSE "ax.set_zbound")

C10_Witness ==
  \E i \in DOMAIN calls :
    /\ Valid(i) /\ Raised(i)
    /\ Cols(i) = 3 /\ Passed(i, "axes") /\ calls[i].kwargs["axes"] = <<0, 1, 3>>
    /\ calls[i].s.kind = "array" /\ calls[i].A.shape[1] # Len(calls[i].s.v)
    /\ calls[i].ret.exc = <<"IndexError", "expression">>
    /\ ~ Has(calls[i].ops, "ax.scatter")

====
